---- MODULE Spec2Model ----
(***************************************************************************)
(* Chart image generation of irfsim/trade-analytics.                       *)
(*                                                                         *)
(* Two programs are modelled with the same actions, told apart by impl:    *)
(*   "server"  src/scripts/chart-server.py     (local development server)  *)
(*   "api"     src/api/chart-image/index.py    (serverless handler)        *)
(*                                                                         *)
(* Conventions.                                                            *)
(*  - Prices are integers; every y coordinate of the chart is kept in      *)
(*    hundredths of a price unit (y = 100 * price), so that 4% and 8% of   *)
(*    the price range are exact.  Floating point rounding is not modelled. *)
(*  - x coordinates are kept in hundredths of an index unit, so 0.15 is 15.*)
(*  - Series positions are 0-based as in the code; bars[i + 1] is the bar  *)
(*    at position i.                                                       *)
(*  - An optional value (Python None or a value) is <<>> or <<v>>.         *)
(*  - A timestamp is [wall, aware, off]: its wall-clock hour, whether it   *)
(*    carries a timezone, and that timezone's offset from UTC in hours     *)
(*    (0 when naive).  The instant of an aware timestamp is wall - off.    *)
(*  - A bar keeps the columns the code reads (its timestamp, Low, High);   *)
(*    Open, Close and Volume are read by the plotting engine only.         *)
(*  - The plotting engine (mplfinance/matplotlib) and the socket are       *)
(*    collaborators: their calls succeed on the inputs modelled here, and  *)
(*    the engine's default y range is a nondeterministic choice.           *)
(***************************************************************************)
EXTENDS Integers, Sequences, FiniteSets, TLC

\* ---------------------------------------------------------------- bounds
MaxBars == 3
MaxTime == 4
MaxLegs == 3
MaxRenders == 2

\* ----------------------------------------------------- program constants
\* marker_offset = price_range * 0.04
MarkerOffsetPct == 4
\* data_low - price_range * 0.08, data_high + price_range * 0.08
BoundsPadPct == 8
\* x_offset = -0.15 + (marker_count * 0.15), in hundredths of an index unit
JitterStep == 15

GREEN == "#10b981"
RED == "#ef4444"
BLUE == "#3b82f6"
AMBER == "#f59e0b"
GRAY == "#71717a"

None == <<>>
Some(v) == <<v>>
IsNone(o) == o = <<>>
Val(o) == o[1]

Abs(x) == IF x < 0 THEN -x ELSE x

SetMin(S) == CHOOSE x \in S : \A y \in S : x <= y
SetMax(S) == CHOOSE x \in S : \A y \in S : x >= y

\* ------------------------------------------------------------ timestamps
Naive(w) == [wall |-> w, aware |-> FALSE, off |-> 0]
Aware(w, o) == [wall |-> w, aware |-> TRUE, off |-> o]

\* Timestamp.tz_localize('UTC') of a naive timestamp: same wall clock, UTC.
TzLocalizeUTC(ts) == Aware(ts.wall, 0)

\* Timestamp.tz_convert(tz) of an aware timestamp: same instant, other zone.
TzConvert(ts, off) == Aware(ts.wall - ts.off + off, off)

\* Timestamp.tz_localize(None): the wall clock is kept, the zone dropped.
TzLocalizeNone(ts) == Naive(ts.wall)

\* pd.Timestamp(x): a parsed timestamp, NaT for '' (kind "nat"), or a
\* ValueError for text that is no date (kind "bad").
ParseKind(executed_at) ==
    CASE executed_at.kind = "ts" -> "ts"
      [] executed_at.kind = "empty" -> "nat"
      [] OTHER -> "bad"

\* Fault: a naive leg_date localized to the index's zone instead of UTC.
ReconcileTzNaiveAsLocal(index_tz, leg_date) ==
    IF index_tz.aware
    THEN IF ~leg_date.aware
         THEN Aware(leg_date.wall, index_tz.off)
         ELSE TzConvert(leg_date, index_tz.off)
    ELSE IF leg_date.aware
         THEN TzLocalizeNone(leg_date)
         ELSE leg_date

\* chart-server: make leg_date match the data index's timezone.
ReconcileTz(index_tz, leg_date) ==
    IF index_tz.aware
    THEN IF ~leg_date.aware
         THEN TzConvert(TzLocalizeUTC(leg_date), index_tz.off)
         ELSE TzConvert(leg_date, index_tz.off)
    ELSE IF leg_date.aware
         THEN TzLocalizeNone(leg_date)
         ELSE leg_date

\* ------------------------------------------------- nearest index lookup
\* The timestamps of the series, as a sequence of wall clocks in index_tz.
IndexOf(data) == [i \in 1..Len(data.bars) |-> data.bars[i].t]

\* Index.get_indexer(target, method='pad'): last position whose label is
\* <= t, -1 when there is none.
PadIndexer(index, t) ==
    LET S == {i \in 1..Len(index) : index[i] <= t}
    IN  IF S = {} THEN -1 ELSE SetMax(S) - 1

\* Index.get_indexer(target, method='backfill'): first position whose label
\* is >= t, -1 when there is none.
BackfillIndexer(index, t) ==
    LET S == {i \in 1..Len(index) : index[i] >= t}
    IN  IF S = {} THEN -1 ELSE SetMin(S) - 1

\* abs(self._values[indexer] - target): position -1 reads the last label,
\* as numpy indexing does.
DifferenceCompat(index, t, pos) ==
    LET i == IF pos = -1 THEN Len(index) ELSE pos + 1
    IN  Abs(index[i] - t)

\* Fault: the comparison of a non-monotonic index (<=), so that a tie goes
\* to the left neighbour.
GetIndexerNearestLeftTie(index, t) ==
    LET left == PadIndexer(index, t)
        right == BackfillIndexer(index, t)
    IN  IF DifferenceCompat(index, t, left) <= DifferenceCompat(index, t, right)
           \/ right = -1
        THEN left
        ELSE right

\* pandas Index._get_nearest_indexer on a monotonically increasing index:
\* the left (pad) neighbour wins only when strictly closer, so a tie goes
\* to the right neighbour.
GetIndexerNearest(index, t) ==
    LET left == PadIndexer(index, t)
        right == BackfillIndexer(index, t)
    IN  IF DifferenceCompat(index, t, left) < DifferenceCompat(index, t, right)
           \/ right = -1
        THEN left
        ELSE right

\* ------------------------------------------------------------ the series
\* Fault: the emptiness check left out.
IsEmptyUnchecked(data) == FALSE

\* data.empty
IsEmpty(data) == Len(data.bars) = 0

\* data['Low'].min() and data['High'].max(), in price units.
DataLow(data) == SetMin({data.bars[i].Low : i \in 1..Len(data.bars)})
DataHigh(data) == SetMax({data.bars[i].High : i \in 1..Len(data.bars)})

\* price_range = data['High'].max() - data['Low'].min(), in price units.
PriceRange(data) == DataHigh(data) - DataLow(data)

\* The y range mpf.plot leaves on the price axis (ax_price.get_ylim()): the
\* engine's choice, some margin around the candles on either side.
DefaultYRanges(data) ==
    LET r == PriceRange(data)
        margins == {3 * r + 1, 20 * r + 1}
    IN  {<<100 * DataLow(data) - a, 100 * DataHigh(data) + b>> :
            a \in margins, b \in margins}

\* --------------------------------------------------------- reference lines
\* if exit_price: (None and 0.0 are falsy)
Truthy(price) == ~IsNone(price) /\ Val(price) # 0

\* Fault: the direction ignored, every trade judged as a long one.
IsProfitAsLong(dir, entry, exit) == exit > entry

\* is_profit = (exit_price > entry_price) if direction == 'LONG'
\*             else (exit_price < entry_price)
IsProfit(dir, entry, exit) ==
    IF dir = "LONG" THEN exit > entry ELSE exit < entry

ExitLineColor(dir, entry, exit) ==
    IF IsProfit(dir, entry, exit) THEN GREEN ELSE RED

\* ----------------------------------------------------------------- markers
\* leg.get('leg_type') in ['ENTRY', 'ADD']
IsBuy(leg_type) == leg_type \in {"ENTRY", "ADD"}

\* x_offset of the marker placed when marker_count markers are already at
\* its position, in hundredths of an index unit.
XOffset(is_buy, marker_count) ==
    IF is_buy
    THEN -JitterStep + marker_count * JitterStep
    ELSE JitterStep + marker_count * JitterStep

\* chart-server: colors.get(leg.get('leg_type'), '#71717a')
ServerColor(leg_type) ==
    CASE leg_type = "ENTRY" -> GREEN
      [] leg_type = "ADD" -> BLUE
      [] leg_type = "TRIM" -> AMBER
      [] leg_type = "EXIT" -> RED
      [] OTHER -> GRAY

\* api: green if ENTRY else blue if ADD else amber if TRIM else red
ApiColor(leg_type) ==
    IF leg_type = "ENTRY" THEN GREEN
    ELSE IF leg_type = "ADD" THEN BLUE
    ELSE IF leg_type = "TRIM" THEN AMBER
    ELSE RED

Missing == "<missing>"

\* A leg_type that json.loads delivers as a list or a dict: it compares
\* unequal to every string and cannot be used as a dictionary key.
Unhashable == "<unhashable>"

\* Fault: a handler narrowed to `except KeyError`.
CaughtKeyErrorOnly(cls) == cls = "KeyError"

\* The classes `except Exception` catches.
CaughtByLegHandler(cls) ==
    cls \in {"ValueError", "KeyError", "TypeError", "AttributeError"}

NoMarker == << >>
Skip(used) == [exc |-> "", markers |-> NoMarker, used |-> used]
Raise(cls, used) == [exc |-> cls, markers |-> NoMarker, used |-> used]

\* chart-server, the body of the try block of one leg: the marker drawn (if
\* any), the counters afterwards, and the exception raised (if any).  The
\* counter of the position is stored (line 274) before the colour is looked
\* up (line 289); the lookup hashes leg_type and raises TypeError when it
\* cannot.
ServerLegBody(data, leg, legNo, used, marker_offset) ==
    LET kind == ParseKind([kind |-> IF leg.executed_at.kind = "missing"
                                    THEN "empty" ELSE leg.executed_at.kind])
    IN  IF kind = "bad" THEN Raise("ValueError", used)
        ELSE IF kind = "nat" THEN Skip(used)
        ELSE
          LET leg_date == ReconcileTz(data.tz, leg.executed_at.ts)
              idx == GetIndexerNearest(IndexOf(data), leg_date.wall)
          IN  IF ~(0 <= idx /\ idx < Len(data.bars)) THEN Skip(used)
              ELSE
                LET candle == data.bars[idx + 1]
                    is_buy == IsBuy(leg.leg_type)
                    marker_count == used[idx]
                    x_offset == XOffset(is_buy, marker_count)
                    y_pos == IF is_buy
                             THEN 100 * candle.Low - marker_offset
                             ELSE 100 * candle.High + marker_offset
                    counted == [used EXCEPT ![idx] = marker_count + 1]
                IN  IF leg.leg_type = Unhashable
                    THEN Raise("TypeError", counted)
                    ELSE
                    [exc |-> "",
                     markers |-> <<[leg |-> legNo,
                                    idx |-> idx,
                                    x_offset |-> x_offset,
                                    y_pos |-> y_pos,
                                    marker |-> IF is_buy THEN "^" ELSE "v",
                                    color |-> ServerColor(leg.leg_type)]>>,
                     used |-> counted]

\* api, the body of the try block of one leg.  The timestamp is stripped of
\* its zone and looked up as it is; against a tz-aware index pandas refuses
\* the comparison (TypeError).
ApiLegBody(data, leg, legNo, used) ==
    IF leg.executed_at.kind = "missing" THEN Raise("KeyError", used)
    ELSE
      LET kind == ParseKind(leg.executed_at)
      IN  IF kind = "bad" THEN Raise("ValueError", used)
          ELSE IF kind = "nat" THEN Skip(used)
          ELSE IF data.tz.aware THEN Raise("TypeError", used)
          ELSE
            LET leg_date == TzLocalizeNone(leg.executed_at.ts)
                idx == GetIndexerNearest(IndexOf(data), leg_date.wall)
            IN  IF ~(0 <= idx /\ idx < Len(data.bars)) THEN Skip(used)
                ELSE IF IsNone(leg.price) THEN Raise("KeyError", used)
                ELSE IF leg.leg_type = Missing THEN Raise("KeyError", used)
                ELSE
                  [exc |-> "",
                   markers |-> <<[leg |-> legNo,
                                  idx |-> idx,
                                  x_offset |-> 0,
                                  y_pos |-> 100 * Val(leg.price),
                                  marker |-> IF IsBuy(leg.leg_type)
                                             THEN "^" ELSE "v",
                                  color |-> ApiColor(leg.leg_type)]>>,
                   used |-> used]

LegBody(im, data, leg, legNo, used, marker_offset) ==
    IF im = "server"
    THEN ServerLegBody(data, leg, legNo, used, marker_offset)
    ELSE ApiLegBody(data, leg, legNo, used)

\* Fault: the padded bound taken as it is, the engine's range dropped.
NewYMinPaddedOnly(y_min, data_low, price_range) ==
    100 * data_low - price_range * BoundsPadPct

\* Expand y-axis: the union of the engine's range and the padded data range.
NewYMin(y_min, data_low, price_range) ==
    LET padded == 100 * data_low - price_range * BoundsPadPct
    IN  IF padded < y_min THEN padded ELSE y_min

NewYMax(y_max, data_high, price_range) ==
    LET padded == 100 * data_high + price_range * BoundsPadPct
    IN  IF padded > y_max THEN padded ELSE y_max

\* ================================================================== state
VARIABLES
    impl,            \* which program runs: "server" or "api"
    pc,              \* where the handler / generate_chart stands
    data,            \* the OHLCV series: [tz, bars]
    legs,            \* json.loads(legs_json): [iterable, items]
    entry_price,     \* float
    exit_price,      \* Optional float
    direction,       \* str
    fig,             \* TRUE once this call has created its figure
    lines,           \* axhline calls so far: <<[y, color, role]>>
    price_range,     \* chart-server local
    used_positions,  \* chart-server local: position -> markers placed there
    legNo,           \* legs[1..legNo] have been iterated
    markers,         \* scatter calls so far
    ylim,            \* the y range of ax_price, <<>> before the plot
    y_default,       \* chart-server locals y_min, y_max: get_ylim()'s answer
    titled,          \* set_title was called
    buf,             \* the bytes generate_chart holds: "" or "png"
    err,             \* the exception in flight or handled: [cls, msg]
    openFigures,     \* figures pyplot still holds (never closed)
    response,        \* what this request has sent: <<[status, part, content]>>
    renders          \* requests handled so far

vars == <<impl, pc, data, legs, entry_price, exit_price, direction, fig, lines,
          price_range, used_positions, legNo, markers, ylim, y_default, titled,
          buf, err, openFigures, response, renders>>

inputs == <<impl, data, legs, entry_price, exit_price, direction>>

NoErr == [cls |-> "", msg |-> ""]
NoData == [tz |-> [aware |-> FALSE, off |-> 0], bars |-> << >>]
NoLegs == [iterable |-> TRUE, items |-> << >>]

\* The locals of a call of generate_chart before it has run.
FreshLocals ==
    /\ fig = FALSE
    /\ lines = << >>
    /\ price_range = 0
    /\ used_positions = << >>
    /\ legNo = 0
    /\ markers = << >>
    /\ ylim = << >>
    /\ y_default = << >>
    /\ titled = FALSE
    /\ buf = ""
    /\ err = NoErr

\* ------------------------------------------------------- generate_chart
\* if data.empty: raise ValueError("No data available")
GC_CheckEmpty ==
    /\ pc = "gc_check"
    /\ IF IsEmpty(data)
       THEN /\ pc' = "raised"
            /\ err' = [cls |-> "ValueError", msg |-> "No data available"]
       ELSE /\ pc' = "gc_plot"
            /\ err' = err
    /\ UNCHANGED <<inputs, fig, lines, price_range, used_positions,
                   legNo, markers, ylim, y_default, titled,
                   buf, openFigures, response, renders>>

\* fig, axes = mpf.plot(data, ..., returnfig=True); ax_price = axes[0]
GC_Plot ==
    /\ pc = "gc_plot"
    /\ \E yr \in DefaultYRanges(data) : ylim' = yr
    /\ fig' = TRUE
    /\ openFigures' = openFigures + 1
    /\ pc' = "gc_entry"
    /\ UNCHANGED <<inputs, lines, price_range, used_positions,
                   legNo, markers, y_default, titled, buf,
                   err, response, renders>>

\* ax_price.axhline(y=entry_price, color='#10b981', ...)
GC_EntryLine ==
    /\ pc = "gc_entry"
    /\ lines' = Append(lines, [y |-> 100 * entry_price, color |-> GREEN,
                               role |-> "entry"])
    /\ pc' = "gc_exit"
    /\ UNCHANGED <<inputs, fig, price_range, used_positions, legNo,
                   markers, ylim, y_default, titled, buf,
                   err, openFigures, response, renders>>

\* if exit_price: ... ax_price.axhline(y=exit_price, color=...)
GC_ExitLine ==
    /\ pc = "gc_exit"
    /\ lines' = IF Truthy(exit_price)
                THEN Append(lines,
                            [y |-> 100 * Val(exit_price),
                             color |-> ExitLineColor(direction, entry_price,
                                                     Val(exit_price)),
                             role |-> "exit"])
                ELSE lines
    /\ pc' = IF impl = "server" THEN "gc_range" ELSE "gc_legs"
    /\ UNCHANGED <<inputs, fig, price_range, used_positions, legNo,
                   markers, ylim, y_default, titled, buf,
                   err, openFigures, response, renders>>

\* chart-server: price_range = ...; marker_offset = ...; used_positions = {}
GC_PriceRange ==
    /\ pc = "gc_range"
    /\ price_range' = PriceRange(data)
    /\ used_positions' = [i \in 0..(Len(data.bars) - 1) |-> 0]
    /\ pc' = "gc_legs"
    /\ UNCHANGED <<inputs, fig, lines, legNo, markers, ylim,
                   y_default, titled, buf, err, openFigures,
                   response, renders>>

\* for leg in legs: try: ... except Exception: continue
\* One iteration of the loop, or its end; iterating a value that is no list
\* (legs=null, legs=5) raises TypeError outside any handler.
GC_Leg ==
    /\ pc = "gc_legs"
    /\ IF ~legs.iterable
       THEN /\ pc' = "raised"
            /\ err' = [cls |-> "TypeError", msg |-> "object is not iterable"]
            /\ UNCHANGED <<legNo, markers, used_positions>>
       ELSE IF legNo = Len(legs.items)
       THEN /\ pc' = IF impl = "server" THEN "gc_bounds" ELSE "gc_title"
            /\ UNCHANGED <<legNo, markers, used_positions, err>>
       ELSE LET r == LegBody(impl, data, legs.items[legNo + 1], legNo + 1,
                             used_positions,
                             price_range * MarkerOffsetPct)
            IN  IF r.exc = "" \/ CaughtByLegHandler(r.exc)
                THEN /\ legNo' = legNo + 1
                     /\ markers' = markers \o r.markers
                     /\ used_positions' = r.used
                     /\ UNCHANGED <<pc, err>>
                ELSE /\ pc' = "raised"
                     /\ err' = [cls |-> r.exc, msg |-> "leg"]
                     /\ UNCHANGED <<legNo, markers, used_positions>>
    /\ UNCHANGED <<inputs, fig, lines, price_range, ylim, y_default,
                   titled, buf, openFigures, response,
                   renders>>

\* chart-server: y_min, y_max = ax_price.get_ylim(); ...; set_ylim(...)
GC_Bounds ==
    /\ pc = "gc_bounds"
    /\ y_default' = ylim
    /\ ylim' = <<NewYMin(ylim[1], DataLow(data), price_range),
                 NewYMax(ylim[2], DataHigh(data), price_range)>>
    /\ pc' = "gc_title"
    /\ UNCHANGED <<inputs, fig, lines, price_range, used_positions,
                   legNo, markers, titled, buf, err, openFigures,
                   response, renders>>

\* ax_price.set_title(...)
GC_Title ==
    /\ pc = "gc_title"
    /\ titled' = TRUE
    /\ pc' = "gc_save"
    /\ UNCHANGED <<inputs, fig, lines, price_range, used_positions,
                   legNo, markers, ylim, y_default, buf, err,
                   openFigures, response, renders>>

\* buf = io.BytesIO(); fig.savefig(buf, format='png', ...); buf.seek(0)
GC_Save ==
    /\ pc = "gc_save"
    /\ buf' = "png"
    /\ pc' = "gc_close"
    /\ UNCHANGED <<inputs, fig, lines, price_range, used_positions,
                   legNo, markers, ylim, y_default, titled,
                   err, openFigures, response, renders>>

\* plt.close(fig); return buf.getvalue()
GC_Close ==
    /\ pc = "gc_close"
    /\ fig' = FALSE
    /\ openFigures' = openFigures - 1
    /\ pc' = "returned"
    /\ UNCHANGED <<inputs, lines, price_range, used_positions,
                   legNo, markers, ylim, y_default, titled,
                   buf, err, response, renders>>

NextRender ==
    \/ GC_CheckEmpty
    \/ GC_Plot
    \/ GC_EntryLine
    \/ GC_ExitLine
    \/ GC_PriceRange
    \/ GC_Leg
    \/ GC_Bounds
    \/ GC_Title
    \/ GC_Save
    \/ GC_Close

\* ---------------------------------------------------------- input domains
NaiveTz == [aware |-> FALSE, off |-> 0]
UtcTz == [aware |-> TRUE, off |-> 0]
PlusOneTz == [aware |-> TRUE, off |-> 1]

At(ts) == [kind |-> "ts", ts |-> ts]
NotAt(kind) == [kind |-> kind, ts |-> Naive(0)]

Leg(executed_at, leg_type, price) ==
    [executed_at |-> executed_at, leg_type |-> leg_type, price |-> price]

List(items) == [iterable |-> TRUE, items |-> items]
\* json.loads of a legs parameter that is no array (null, 5).
NotAList == [iterable |-> FALSE, items |-> << >>]

SeqsUpTo(S, n) == UNION {[1..k -> S] : k \in 0..n}

FlatBar(t) == [t |-> t, Low |-> 100, High |-> 100]
Bar(t, low, high) == [t |-> t, Low |-> low, High |-> high]

\* Strictly increasing timestamps, as the data sources deliver them.
Increasing(ts) == \A i \in 1..(Len(ts) - 1) : ts[i] < ts[i + 1]

\* The requests of the HTTP specification: legs of every kind in every order.
GoodLeg == Leg(At(Naive(0)), "ENTRY", Some(100))
BadDateLeg == Leg(NotAt("bad"), "EXIT", Some(100))
MissingKeysLeg == Leg(NotAt("missing"), Missing, None)
UnknownTypeLeg == Leg(At(Naive(1)), "OTHER", Some(100))
HttpLegs == {GoodLeg, BadDateLeg, MissingKeysLeg, UnknownTypeLeg}
HttpLegLists == {List(l) : l \in SeqsUpTo(HttpLegs, MaxLegs)} \cup {NotAList}
HttpSeries ==
    { NoData,
      [tz |-> NaiveTz, bars |-> <<Bar(0, 90, 100), Bar(1, 100, 110)>>],
      [tz |-> UtcTz, bars |-> <<Bar(0, 100, 100)>>] }

\* ------------------------------------------------------------ the handler
\* The handler returns: its locals and those of generate_chart are gone; a
\* figure that was never closed stays with pyplot.
EndRequest ==
    /\ data' = NoData
    /\ legs' = NoLegs
    /\ entry_price' = 0
    /\ exit_price' = None
    /\ direction' = "LONG"
    /\ fig' = FALSE
    /\ lines' = << >>
    /\ price_range' = 0
    /\ used_positions' = << >>
    /\ legNo' = 0
    /\ markers' = << >>
    /\ ylim' = << >>
    /\ y_default' = << >>
    /\ titled' = FALSE
    /\ buf' = ""
    /\ err' = NoErr
    /\ renders' = renders + 1
    /\ pc' = "idle"
    /\ UNCHANGED <<impl, openFigures>>

\* try: parse the query string (float(...), json.loads(...)).
H_Parse ==
    /\ pc = "idle"
    /\ renders < MaxRenders
    /\ response' = << >>
    /\ \E ok \in BOOLEAN :
         IF ok
         THEN /\ pc' = "h_fetch"
              /\ err' = NoErr
              /\ entry_price' = 100
              /\ exit_price' \in {None, Some(110)}
              /\ direction' \in {"LONG", "SHORT"}
              /\ legs' \in HttpLegLists
         ELSE /\ pc' = "raised"
              /\ err' = [cls |-> "ValueError", msg |-> "bad parameter"]
              /\ UNCHANGED <<legs, entry_price, exit_price, direction>>
    /\ UNCHANGED <<impl, data, fig, lines, price_range, used_positions, legNo,
                   markers, ylim, y_default, titled, buf, openFigures,
                   renders>>

\* data = fetch_data(ticker, from_date, to_date, interval): a series,
\* possibly empty, or the collaborator's exception.
H_Fetch ==
    /\ pc = "h_fetch"
    /\ \E ok \in BOOLEAN :
         IF ok
         THEN /\ data' \in HttpSeries
              /\ pc' = "gc_check"
              /\ err' = err
         ELSE /\ data' = data
              /\ pc' = "raised"
              /\ err' = [cls |-> "Exception", msg |-> "fetch failed"]
    /\ UNCHANGED <<impl, legs, entry_price, exit_price, direction, fig, lines,
                   price_range, used_positions, legNo, markers, ylim,
                   y_default, titled, buf, openFigures, response, renders>>

\* Fault: the 200 status line and headers sent before the chart is rendered.
H_Send200BeforeRender ==
    /\ pc = "gc_check"
    /\ response = << >>
    /\ response' = Append(response, [status |-> 200, part |-> "headers",
                                     content |-> "image/png"])
    /\ UNCHANGED <<pc, inputs, fig, lines, price_range, used_positions, legNo,
                   markers, ylim, y_default, titled, buf, err, openFigures,
                   renders>>

\* self.send_response(200); send_header(...); self.end_headers()
H_Send200 ==
    /\ pc = "returned"
    /\ response' = Append(response, [status |-> 200, part |-> "headers",
                                     content |-> "image/png"])
    /\ pc' = "h_body"
    /\ UNCHANGED <<inputs, fig, lines, price_range, used_positions, legNo,
                   markers, ylim, y_default, titled, buf, err, openFigures,
                   renders>>

\* self.wfile.write(image_bytes), and the handler returns.
H_WriteImage ==
    /\ pc = "h_body"
    /\ response' = Append(response, [status |-> 200, part |-> "body",
                                     content |-> buf])
    /\ EndRequest

\* except Exception as e: send_response(500); ...; write(json error), and
\* the handler returns.
H_Except ==
    /\ pc = "raised"
    /\ response' = response \o
         <<[status |-> 500, part |-> "headers", content |-> "application/json"],
           [status |-> 500, part |-> "body",
            content |-> "json error: " \o err.msg]>>
    /\ EndRequest

NextHandler ==
    \/ H_Parse
    \/ H_Fetch
    \/ H_Send200
    \/ H_WriteImage
    \/ H_Except

\* ------------------------------------------------------- specifications
\* The long-lived process serving requests one after the other.
Init ==
    /\ impl \in {"server", "api"}
    /\ pc = "idle"
    /\ data = NoData
    /\ legs = NoLegs
    /\ entry_price = 0
    /\ exit_price = None
    /\ direction = "LONG"
    /\ FreshLocals
    /\ openFigures = 0
    /\ response = << >>
    /\ renders = 0

Next == NextHandler \/ NextRender

Spec == Init /\ [][Next]_vars

\* One call of generate_chart from a process with no figure open.
CallInit(im, d, l, entry, exit, dir) ==
    /\ impl = im
    /\ pc = "gc_check"
    /\ data = d
    /\ legs = l
    /\ entry_price = entry
    /\ exit_price = exit
    /\ direction = dir
    /\ FreshLocals
    /\ openFigures = 0
    /\ response = << >>
    /\ renders = 0

\* Calls that vary the prices, the direction and the candles' extent.
LineBars == {<<90, 100>>, <<100, 110>>, <<100, 100>>}
LineSeries ==
    {NoData} \cup
    {[tz |-> NaiveTz,
      bars |-> [i \in 1..Len(s) |-> Bar(i - 1, s[i][1], s[i][2])]] :
        s \in SeqsUpTo(LineBars, 2) \ {<< >>}}
LinePrices == {90, 100, 110}
LineExits == {None, Some(0)} \cup {Some(p) : p \in LinePrices}
\* The direction is the query parameter as sent: any string.
Directions == {"LONG", "SHORT", "long"}
LineLegLists == {List(<< >>), List(<<BadDateLeg, GoodLeg>>), NotAList}

InitCall ==
    \E im \in {"server", "api"}, d \in LineSeries, entry \in LinePrices,
       exit \in LineExits, dir \in Directions, l \in LineLegLists :
        CallInit(im, d, l, entry, exit, dir)

SpecCall == InitCall /\ [][NextRender]_vars

\* Calls that vary the legs' types, order and positions (chart-server).
LayoutSeries ==
    [tz |-> NaiveTz, bars |-> [i \in 1..MaxBars |-> Bar(i - 1, 100, 110)]]
LayoutTypes == {"ENTRY", "ADD", "TRIM", "EXIT", "OTHER", Unhashable}
LayoutDates == {At(Naive(0)), At(Naive(1)), NotAt("bad")}
LayoutLegs == {Leg(d, ty, Some(100)) : d \in LayoutDates, ty \in LayoutTypes}

InitLayout ==
    \E l \in SeqsUpTo(LayoutLegs, MaxLegs) :
        CallInit("server", LayoutSeries, List(l), 100, None, "LONG")

SpecLayout == InitLayout /\ [][NextRender]_vars

\* Calls that vary the series' timestamps and zone and the events' timestamps
\* and zones.  The second event is the first one expressed another way: the
\* same instant in another zone (a naive one read as UTC), or the same wall
\* clock.
AlignTimes == 0..MaxTime
AlignZones == {NaiveTz, UtcTz, PlusOneTz}
AlignSeries ==
    {[tz |-> z, bars |-> [i \in 1..Len(ts) |-> FlatBar(ts[i])]] :
        z \in AlignZones,
        ts \in {q \in SeqsUpTo(AlignTimes, MaxBars) :
                    Len(q) > 0 /\ Increasing(q)}}
AlignEvents ==
    {[wall |-> w, aware |-> z.aware, off |-> z.off] :
        w \in -1..(MaxTime + 1), z \in AlignZones}
UtcInstant(ts) == ts.wall - ts.off
Reexpressions(a) ==
    {b \in AlignEvents : UtcInstant(b) = UtcInstant(a) \/ b.wall = a.wall}

InitAlign ==
    \E im \in {"server", "api"}, d \in AlignSeries, a \in AlignEvents :
      \E b \in Reexpressions(a) :
        CallInit(im, d,
                 List(<<Leg(At(a), "ENTRY", Some(100)),
                        Leg(At(b), "EXIT", Some(100))>>),
                 100, None, "LONG")

SpecAlign == InitAlign /\ [][NextRender]_vars

\* ================================================================= claims
NoDataErr == [cls |-> "ValueError", msg |-> "No data available"]
Indices(q) == 1..Len(q)
LegIsDrawn(i) == \E k \in Indices(markers) : markers[k].leg = i

\* A leg that carries all it needs: a date that parses, a price and a type
\* (the api reads all three and cannot look a date up in a tz-aware index).
C1_Resolvable(leg) ==
    /\ leg.executed_at.kind = "ts"
    /\ impl = "server" => leg.leg_type # Unhashable
    /\ impl = "api" =>
         /\ ~IsNone(leg.price)
         /\ leg.leg_type # Missing
         /\ ~data.tz.aware

\* C1: for a non-empty series and any list of legs (any order, keys missing,
\* dates that do not parse, unknown types) generate_chart does not raise: it
\* iterates every leg, returns a non-empty image, and a leg that fails is
\* skipped while every leg that resolves is drawn.
C1_RenderSucceeds ==
    /\ (pc = "raised" /\ legs.iterable) => IsEmpty(data)
    /\ pc \in {"returned", "h_body"} =>
         /\ buf = "png"
         /\ legNo = Len(legs.items)
         /\ \A i \in Indices(legs.items) :
              C1_Resolvable(legs.items[i]) => LegIsDrawn(i)

C1_Witness ==
    /\ pc = "returned"
    /\ buf = "png"
    /\ \E i, j \in Indices(legs.items) :
         /\ i < j
         /\ legs.items[i].executed_at.kind = "bad"
         /\ LegIsDrawn(j)

\* C2: with an empty series generate_chart raises ValueError("No data
\* available") whatever the other arguments are, and does so before any
\* figure is created, any line or marker drawn, or any byte produced.
C2_EmptySeriesFails ==
    Len(data.bars) = 0 =>
        /\ pc \in {"gc_check", "raised"}
        /\ pc = "raised" => err = NoDataErr
        /\ ~fig
        /\ openFigures = 0
        /\ lines = << >>
        /\ markers = << >>
        /\ ylim = << >>
        /\ ~titled
        /\ buf = ""

C2_Witness ==
    /\ Len(data.bars) = 0
    /\ pc = "raised"
    /\ err = NoDataErr
    /\ legs = List(<<BadDateLeg, GoodLeg>>)
    /\ direction = "SHORT"
    /\ exit_price = Some(110)

\* The states in which the reference lines have been drawn.
LinesDrawn ==
    \/ pc \in {"gc_range", "gc_legs", "gc_bounds", "gc_title", "gc_save",
               "gc_close", "returned"}
    \/ pc = "raised" /\ ~IsEmpty(data)

ExitPresent == ~IsNone(exit_price) /\ Val(exit_price) # 0

C5_Lines(green) ==
    LinesDrawn =>
        /\ Len(lines) = IF ExitPresent THEN 2 ELSE 1
        /\ lines[1].role = "entry"
        /\ lines[1].y = 100 * entry_price
        /\ ExitPresent =>
             /\ lines[2].role = "exit"
             /\ lines[2].y = 100 * Val(exit_price)
             /\ lines[2].color = IF green THEN GREEN ELSE RED

\* C5 as stated: the entry line is at entry_price; the exit line is drawn iff
\* exit_price is present and non-zero; it is green exactly when (LONG and
\* exit > entry) or (SHORT and exit < entry), red otherwise.
C5_Original ==
    C5_Lines(\/ direction = "LONG" /\ Val(exit_price) > entry_price
             \/ direction = "SHORT" /\ Val(exit_price) < entry_price)

\* C5 amended: the entry line is at entry_price; the exit line is drawn iff
\* exit_price is present and non-zero; it is green exactly when (direction =
\* LONG and exit > entry) or (direction is anything but LONG and exit <
\* entry), red otherwise (exit = entry included).
C5_ReferenceLines ==
    C5_Lines(\/ direction = "LONG" /\ Val(exit_price) > entry_price
             \/ direction # "LONG" /\ Val(exit_price) < entry_price)

C5_Witness ==
    /\ pc = "returned"
    /\ direction = "long"
    /\ Len(lines) = 2
    /\ lines[2].color = GREEN
    /\ Val(exit_price) < entry_price

C7_Original ==
    /\ pc \in {"returned", "raised"} => ~fig
    /\ pc = "idle" => openFigures = 0

H200 == [status |-> 200, part |-> "headers", content |-> "image/png"]
B200 == [status |-> 200, part |-> "body", content |-> "png"]
H500 == [status |-> 500, part |-> "headers", content |-> "application/json"]
ErrorBodies ==
    {[status |-> 500, part |-> "body", content |-> "json error: " \o msg] :
        msg \in {"bad parameter", "fetch failed", "No data available",
                 "object is not iterable"}}

LegOf(m) == legs.items[m.leg]
BuySide(m) == LegOf(m).leg_type \in {"ENTRY", "ADD"}

\* C3 as stated: the x offsets of the buy-side markers (ENTRY, ADD) placed at
\* one series position grow strictly in absolute value in placement order,
\* and no two of them are equal.
C3_Original ==
    \A k1, k2 \in Indices(markers) :
        (/\ k1 < k2
         /\ BuySide(markers[k1])
         /\ BuySide(markers[k2])
         /\ markers[k1].idx = markers[k2].idx)
        => /\ Abs(markers[k1].x_offset) < Abs(markers[k2].x_offset)
           /\ markers[k1].x_offset # markers[k2].x_offset

\* C4 as stated: no two markers of a render at one series position have the
\* same x offset, and no marker has x offset 0.
C4_Original ==
    /\ \A k1, k2 \in Indices(markers) :
         (k1 # k2 /\ markers[k1].idx = markers[k2].idx)
         => markers[k1].x_offset # markers[k2].x_offset
    /\ \A k \in Indices(markers) : markers[k].x_offset # 0

\* The position a leg's marker was drawn at.
PosOf(i) == markers[CHOOSE k \in Indices(markers) : markers[k].leg = i].idx
EventOf(i) == legs.items[i].executed_at.ts

\* C9: chart-server.  Against a tz-aware series two events that are the same
\* instant (a naive one read as UTC) resolve to the same position, whatever
\* zone each is written in; against a naive series an aware event resolves
\* to the position of the naive event with its wall clock.
C9_SameInstantSamePosition ==
    (impl = "server" /\ pc = "returned") =>
        \A i, j \in Indices(legs.items) :
            /\ LegIsDrawn(i)
            /\ LegIsDrawn(j)
            /\ (data.tz.aware
                /\ EventOf(i).wall - EventOf(i).off
                     = EventOf(j).wall - EventOf(j).off)
               => PosOf(i) = PosOf(j)
            /\ (~data.tz.aware /\ EventOf(i).wall = EventOf(j).wall)
               => PosOf(i) = PosOf(j)

C9_Witness ==
    /\ impl = "server"
    /\ pc = "returned"
    /\ data.tz = PlusOneTz
    /\ ~EventOf(1).aware
    /\ EventOf(2) = Aware(EventOf(1).wall, 0)
    /\ PosOf(1) = PosOf(2)
    /\ PosOf(1) # GetIndexerNearest(IndexOf(data), EventOf(1).wall)

\* An event's time on the clock of the series: its instant in the series'
\* zone (a naive event read as UTC), or its wall clock for a naive series.
OnSeriesClock(ev) ==
    IF data.tz.aware THEN ev.wall - ev.off + data.tz.off ELSE ev.wall

Distance(pos, t) == Abs(data.bars[pos + 1].t - t)

C10_Nearest(earlierWins) ==
    /\ \A k \in Indices(markers) :
         LET idx == markers[k].idx
             t == OnSeriesClock(LegOf(markers[k]).executed_at.ts)
         IN  /\ idx \in 0..(Len(data.bars) - 1)
             /\ \A j \in 0..(Len(data.bars) - 1) :
                  /\ Distance(idx, t) <= Distance(j, t)
                  /\ Distance(idx, t) = Distance(j, t) =>
                       IF earlierWins THEN idx <= j ELSE idx >= j
    /\ (pc = "returned" /\ (impl = "server" \/ ~data.tz.aware)) =>
          \A i \in Indices(legs.items) : LegIsDrawn(i)

\* C10 as stated: the position of an event is that of the bar closest to it,
\* the earlier of two bars at the same distance, and it is in [0, length-1]
\* (the api cannot look an event up in a tz-aware index at all: pandas
\* raises and the leg is skipped).
C10_Original == C10_Nearest(TRUE)

\* C10 amended: the position of an event is that of the bar closest to it,
\* the later of two bars at the same distance, and it is in [0, length-1].
C10_NearestLaterOnTie == C10_Nearest(FALSE)

C10_Witness ==
    /\ pc = "returned"
    /\ \E k \in Indices(markers) :
         LET idx == markers[k].idx
             t == OnSeriesClock(LegOf(markers[k]).executed_at.ts)
         IN  /\ idx > 0
             /\ Distance(idx, t) = Distance(idx - 1, t)

\* The classification the specification gives: shape and colour by leg_type.
KnownTypes == {"ENTRY", "ADD", "TRIM", "EXIT"}
SpecifiedShape(leg_type) == IF leg_type \in {"ENTRY", "ADD"} THEN "^" ELSE "v"
SpecifiedColour(leg_type) ==
    CASE leg_type = "ENTRY" -> GREEN
      [] leg_type = "ADD" -> BLUE
      [] leg_type = "TRIM" -> AMBER
      [] leg_type = "EXIT" -> RED
      [] OTHER -> GRAY

\* A leg that has a place on the chart whatever its type: its date parses
\* and (api) it has a price and the series' index is tz-naive.
Placeable(leg) ==
    /\ leg.executed_at.kind = "ts"
    /\ impl = "api" => (~IsNone(leg.price) /\ ~data.tz.aware)

\* C11 as stated: in both implementations every marker has the shape and the
\* colour of its leg's type (ENTRY green up, ADD blue up, TRIM amber down,
\* EXIT red down, any other type gray down), and a render that returns has
\* drawn every placeable leg whose type is none of the four.
C11_Original ==
    /\ \A k \in Indices(markers) :
         /\ markers[k].marker = SpecifiedShape(LegOf(markers[k]).leg_type)
         /\ markers[k].color = SpecifiedColour(LegOf(markers[k]).leg_type)
    /\ pc = "returned" =>
         \A i \in Indices(legs.items) :
             (Placeable(legs.items[i]) /\ legs.items[i].leg_type \notin KnownTypes)
             => LegIsDrawn(i)

\* What the chart shows of a marker: where it is, its shape and its colour.
Shown(m) == [idx |-> m.idx, x_offset |-> m.x_offset, y_pos |-> m.y_pos,
             marker |-> m.marker, color |-> m.color]
ShownAll(ms) == {Shown(ms[k]) : k \in Indices(ms)}

\* The legs of the list that were drawn, in the order of the list.
DrawnLegs == [k \in Indices(markers) |-> LegOf(markers[k])]

\* The markers chart-server draws for the legs items[n..], starting from the
\* counters `used`, on the series and price range of this render.
RECURSIVE MarkersFrom(_, _, _)
MarkersFrom(items, n, used) ==
    IF n > Len(items) THEN << >>
    ELSE LET r == ServerLegBody(data, items[n], n, used,
                                price_range * MarkerOffsetPct)
         IN  r.markers \o MarkersFrom(items, n + 1, r.used)

FreshCounters == [i \in 0..(Len(data.bars) - 1) |-> 0]
MarkersAt(p) == {k \in Indices(markers) : markers[k].idx = p}

\* C12 as stated: chart-server.  When the loop over the legs is over, the
\* counter of every position is the number of markers drawn there (a skipped
\* leg has counted nothing), and the markers on the chart (offsets, heights,
\* shapes, colours) are those of a render of the same list without the legs
\* that were skipped.
C12_Original ==
    (impl = "server" /\ pc = "returned") =>
        /\ \A p \in DOMAIN used_positions :
             used_positions[p] = Cardinality(MarkersAt(p))
        /\ ShownAll(markers) = ShownAll(MarkersFrom(DrawnLegs, 1, FreshCounters))

====
